---- MODULE Spec2Model ----
(***************************************************************************)
(* A model of the ledger core of tsauvajon/blockchain: the Blockchain      *)
(* (block list + account map), Block hashing and admission, and            *)
(* Transaction::apply against the WorldState implemented by Blockchain.    *)
(*                                                                         *)
(* Option<T> is modelled as a sequence: <<>> is None, <<x>> is Some(x).    *)
(* Result<(), Error> is a record [ok, err]; an Error (a String in the      *)
(* code) is the tuple of the parts the string is formatted from.           *)
(***************************************************************************)
EXTENDS Integers, Sequences, FiniteSets, TLC

\* ------------------------------------------------------------------ bounds

\* The largest Amount; stands for u64::MAX (account.rs: Amount = u64).
AmountMax == 2

\* The largest number of transactions in a submitted block.
MaxTxs == 2

\* The caller goes on calling until the chain has this many blocks.
MaxBlocks == 2

\* The largest nonce a caller gives a transaction.
MaxNonce == 1

\* ------------------------------------------------------------ option, result

None == <<>>

Some(x) == <<x>>

Ok == [ok |-> TRUE, err |-> <<>>]

Err(e) == [ok |-> FALSE, err |-> e]

\* ------------------------------------------------------------------ errors

\* The error messages of the code, under the names the documentation uses.
InvalidHash == <<"invalid hash">>

InvalidPreviousHash == <<"invalid previous hash">>

AccountAlreadyExists == <<"account already exists">>

AccountNotFound == <<"account doesn't exist">>

UsersCannotMint == <<"users cannot mint tokens">>

MintAfterGenesis == <<"cannot mint tokens after genesis">>

TooManyTokens == <<"too many tokens">>

NotEnoughTokens == <<"not enough tokens">>

MissingFromAccount == <<"missing from account">>

FromAccountNotFound == <<"from account doesn't exist">>

ToAccountNotFound == <<"to account doesn't exist">>

\* add_block's report of a failed transaction: the cause and the 0-based index.
TransactionError(cause, i) == <<"err", cause, "on transaction", i>>

\* ---------------------------------------------------------------- accounts

Ids == {"alice", "bob"}

Amounts == 0 .. AmountMax

\* Account::new(): a zero balance.
Account_new == [tokens |-> 0]

\* checked_add as a wrapping add would behave.
checked_add_wrapping(a, b) == Some((a + b) % (AmountMax + 1))

\* u64::checked_add: None when the sum does not fit.
checked_add(a, b) == IF a + b > AmountMax THEN None ELSE Some(a + b)

\* checked_sub as a saturating subtraction would behave.
checked_sub_saturating(a, b) == IF a - b < 0 THEN Some(0) ELSE Some(a - b)

\* checked_sub as a wrapping subtraction would behave.
checked_sub_wrapping(a, b) == Some((a - b) % (AmountMax + 1))

\* u64::checked_sub: None when the difference is negative.
checked_sub(a, b) == IF a - b < 0 THEN None ELSE Some(a - b)

\* HashMap::get / get_mut on the account map: is the key present?
has_account(accts, id) == id \in DOMAIN accts

\* The account map with the balance of an existing account replaced.
set_tokens(accts, id, n) == [accts EXCEPT ![id] = [tokens |-> n]]

\* The account map with a fresh account inserted under a vacant key.
insert_account(accts, id) ==
    [k \in (DOMAIN accts) \cup {id} |-> IF k = id THEN Account_new ELSE accts[k]]

\* is_genesis if the chain never counted as being in genesis.
is_genesis_never(blks) == FALSE

\* WorldState::is_genesis for Blockchain.
is_genesis(blks) == Len(blks) = 0

\* add_account if it inserted without looking for an occupied entry.
add_account_overwrites(accts, id) ==
    [result |-> Ok, accounts |-> insert_account(accts, id)]

\* WorldState::add_account for Blockchain: the outcome and the new map.
add_account(accts, id) ==
    IF ~has_account(accts, id)
    THEN [result |-> Ok, accounts |-> insert_account(accts, id)]
    ELSE [result |-> Err(AccountAlreadyExists), accounts |-> accts]

\* ------------------------------------------------------------ transactions

\* TransactionRecord: the three variants.
CreateUserAccount(id) == [kind |-> "CreateUserAccount", id |-> id]

MintTokens(to, amount) == [kind |-> "MintTokens", to |-> to, amount |-> amount]

SendTokens(to, amount) == [kind |-> "SendTokens", to |-> to, amount |-> amount]

\* Transaction: the struct's five fields.
Transaction(nonce, record, from, signature, created_at) ==
    [nonce |-> nonce, from_account_id |-> from, record |-> record,
     signature |-> signature, created_at |-> created_at]

\* Transaction::new: no signature; the creation time is the caller's clock.
Transaction_new(nonce, record, from, now) == Transaction(nonce, record, from, None, now)

\* calculate_hash if the signature were part of the hashed text.
Transaction_calculate_hash_signed(tx) ==
    <<tx.record, tx.nonce, tx.from_account_id, tx.created_at, tx.signature>>

\* Transaction::calculate_hash: blake3 of the text formatted from record,
\* nonce, from_account_id and created_at. The hash primitive is taken as
\* collision-free: the digest is the tuple of what was fed to it.
Transaction_calculate_hash(tx) ==
    <<tx.record, tx.nonce, tx.from_account_id, tx.created_at>>

\* The CreateUserAccount arm if it looked up the sender as SendTokens does.
apply_CreateUserAccount_checks_sender(tx, accts, genesis) ==
    IF tx.from_account_id # None /\ ~has_account(accts, tx.from_account_id[1])
    THEN [result |-> Err(FromAccountNotFound), accounts |-> accts]
    ELSE IF has_account(accts, tx.record.id)
    THEN [result |-> Err(AccountAlreadyExists), accounts |-> accts]
    ELSE add_account(accts, tx.record.id)

\* Transaction::apply, CreateUserAccount arm.
apply_CreateUserAccount(tx, accts, genesis) ==
    IF has_account(accts, tx.record.id)
    THEN [result |-> Err(AccountAlreadyExists), accounts |-> accts]
    ELSE add_account(accts, tx.record.id)

\* The MintTokens arm without the genesis check.
apply_MintTokens_any_time(tx, accts, genesis) ==
    IF tx.from_account_id # None
    THEN [result |-> Err(UsersCannotMint), accounts |-> accts]
    ELSE IF ~has_account(accts, tx.record.to)
    THEN [result |-> Err(AccountNotFound), accounts |-> accts]
    ELSE LET sum == checked_add(accts[tx.record.to].tokens, tx.record.amount)
         IN  IF sum = None
             THEN [result |-> Err(TooManyTokens), accounts |-> accts]
             ELSE [result |-> Ok,
                   accounts |-> set_tokens(accts, tx.record.to, sum[1])]

\* The MintTokens arm with the recipient looked up before the genesis check.
apply_MintTokens_lookup_first(tx, accts, genesis) ==
    IF tx.from_account_id # None
    THEN [result |-> Err(UsersCannotMint), accounts |-> accts]
    ELSE IF ~has_account(accts, tx.record.to)
    THEN [result |-> Err(AccountNotFound), accounts |-> accts]
    ELSE IF ~genesis
    THEN [result |-> Err(MintAfterGenesis), accounts |-> accts]
    ELSE LET sum == checked_add(accts[tx.record.to].tokens, tx.record.amount)
         IN  IF sum = None
             THEN [result |-> Err(TooManyTokens), accounts |-> accts]
             ELSE [result |-> Ok,
                   accounts |-> set_tokens(accts, tx.record.to, sum[1])]

\* The MintTokens arm with the genesis check before the sender check.
apply_MintTokens_genesis_first(tx, accts, genesis) ==
    IF ~genesis
    THEN [result |-> Err(MintAfterGenesis), accounts |-> accts]
    ELSE IF tx.from_account_id # None
    THEN [result |-> Err(UsersCannotMint), accounts |-> accts]
    ELSE IF ~has_account(accts, tx.record.to)
    THEN [result |-> Err(AccountNotFound), accounts |-> accts]
    ELSE LET sum == checked_add(accts[tx.record.to].tokens, tx.record.amount)
         IN  IF sum = None
             THEN [result |-> Err(TooManyTokens), accounts |-> accts]
             ELSE [result |-> Ok,
                   accounts |-> set_tokens(accts, tx.record.to, sum[1])]

\* The MintTokens arm if it stored the amount instead of adding it.
apply_MintTokens_overwrites(tx, accts, genesis) ==
    IF tx.from_account_id # None
    THEN [result |-> Err(UsersCannotMint), accounts |-> accts]
    ELSE IF ~genesis
    THEN [result |-> Err(MintAfterGenesis), accounts |-> accts]
    ELSE IF ~has_account(accts, tx.record.to)
    THEN [result |-> Err(AccountNotFound), accounts |-> accts]
    ELSE LET sum == checked_add(accts[tx.record.to].tokens, tx.record.amount)
         IN  IF sum = None
             THEN [result |-> Err(TooManyTokens), accounts |-> accts]
             ELSE [result |-> Ok,
                   accounts |-> set_tokens(accts, tx.record.to, tx.record.amount)]

\* Transaction::apply, MintTokens arm.
apply_MintTokens(tx, accts, genesis) ==
    IF tx.from_account_id # None
    THEN [result |-> Err(UsersCannotMint), accounts |-> accts]
    ELSE IF ~genesis
    THEN [result |-> Err(MintAfterGenesis), accounts |-> accts]
    ELSE IF ~has_account(accts, tx.record.to)
    THEN [result |-> Err(AccountNotFound), accounts |-> accts]
    ELSE LET sum == checked_add(accts[tx.record.to].tokens, tx.record.amount)
         IN  IF sum = None
             THEN [result |-> Err(TooManyTokens), accounts |-> accts]
             ELSE [result |-> Ok,
                   accounts |-> set_tokens(accts, tx.record.to, sum[1])]

\* The SendTokens arm if the credit were computed from the recipient's
\* balance read before the debit was stored.
apply_SendTokens_credit_from_stale(tx, accts, genesis) ==
    IF tx.from_account_id = None
    THEN [result |-> Err(MissingFromAccount), accounts |-> accts]
    ELSE IF ~has_account(accts, tx.from_account_id[1])
    THEN [result |-> Err(FromAccountNotFound), accounts |-> accts]
    ELSE LET from == tx.from_account_id[1]
             diff == checked_sub(accts[from].tokens, tx.record.amount)
         IN  IF diff = None
             THEN [result |-> Err(NotEnoughTokens), accounts |-> accts]
             ELSE LET debited == set_tokens(accts, from, diff[1])
                  IN  IF ~has_account(debited, tx.record.to)
                      THEN [result |-> Err(ToAccountNotFound),
                            accounts |-> debited]
                      ELSE LET sum == checked_add(accts[tx.record.to].tokens,
                                                  tx.record.amount)
                           IN  IF sum = None
                               THEN [result |-> Err(TooManyTokens),
                                     accounts |-> debited]
                               ELSE [result |-> Ok,
                                     accounts |-> set_tokens(debited, tx.record.to, sum[1])]

\* The SendTokens arm if nothing were stored before both the debit and the
\* credit had been checked.
apply_SendTokens_stores_last(tx, accts, genesis) ==
    IF tx.from_account_id = None
    THEN [result |-> Err(MissingFromAccount), accounts |-> accts]
    ELSE IF ~has_account(accts, tx.from_account_id[1])
    THEN [result |-> Err(FromAccountNotFound), accounts |-> accts]
    ELSE LET from == tx.from_account_id[1]
             diff == checked_sub(accts[from].tokens, tx.record.amount)
         IN  IF diff = None
             THEN [result |-> Err(NotEnoughTokens), accounts |-> accts]
             ELSE LET debited == set_tokens(accts, from, diff[1])
                  IN  IF ~has_account(debited, tx.record.to)
                      THEN [result |-> Err(ToAccountNotFound),
                            accounts |-> accts]
                      ELSE LET sum == checked_add(debited[tx.record.to].tokens,
                                                  tx.record.amount)
                           IN  IF sum = None
                               THEN [result |-> Err(TooManyTokens),
                                     accounts |-> accts]
                               ELSE [result |-> Ok,
                                     accounts |-> set_tokens(debited, tx.record.to, sum[1])]

\* The SendTokens arm if the checked debit were computed and not stored.
apply_SendTokens_debit_not_stored(tx, accts, genesis) ==
    IF tx.from_account_id = None
    THEN [result |-> Err(MissingFromAccount), accounts |-> accts]
    ELSE IF ~has_account(accts, tx.from_account_id[1])
    THEN [result |-> Err(FromAccountNotFound), accounts |-> accts]
    ELSE LET from == tx.from_account_id[1]
             diff == checked_sub(accts[from].tokens, tx.record.amount)
         IN  IF diff = None
             THEN [result |-> Err(NotEnoughTokens), accounts |-> accts]
             ELSE IF ~has_account(accts, tx.record.to)
             THEN [result |-> Err(ToAccountNotFound), accounts |-> accts]
             ELSE LET sum == checked_add(accts[tx.record.to].tokens, tx.record.amount)
                  IN  IF sum = None
                      THEN [result |-> Err(TooManyTokens), accounts |-> accts]
                      ELSE [result |-> Ok,
                            accounts |-> set_tokens(accts, tx.record.to, sum[1])]

\* The SendTokens arm if the recipient were looked up before the debit.
apply_SendTokens_lookup_first(tx, accts, genesis) ==
    IF tx.from_account_id = None
    THEN [result |-> Err(MissingFromAccount), accounts |-> accts]
    ELSE IF ~has_account(accts, tx.from_account_id[1])
    THEN [result |-> Err(FromAccountNotFound), accounts |-> accts]
    ELSE IF ~has_account(accts, tx.record.to)
    THEN [result |-> Err(ToAccountNotFound), accounts |-> accts]
    ELSE LET from == tx.from_account_id[1]
             diff == checked_sub(accts[from].tokens, tx.record.amount)
         IN  IF diff = None
             THEN [result |-> Err(NotEnoughTokens), accounts |-> accts]
             ELSE LET debited == set_tokens(accts, from, diff[1])
                      sum == checked_add(debited[tx.record.to].tokens, tx.record.amount)
                  IN  IF sum = None
                      THEN [result |-> Err(TooManyTokens), accounts |-> debited]
                      ELSE [result |-> Ok,
                            accounts |-> set_tokens(debited, tx.record.to, sum[1])]

\* Transaction::apply, SendTokens arm: the debit is stored before the
\* recipient is looked up, so the failures after it keep the debit.
apply_SendTokens(tx, accts, genesis) ==
    IF tx.from_account_id = None
    THEN [result |-> Err(MissingFromAccount), accounts |-> accts]
    ELSE IF ~has_account(accts, tx.from_account_id[1])
    THEN [result |-> Err(FromAccountNotFound), accounts |-> accts]
    ELSE LET from == tx.from_account_id[1]
             diff == checked_sub(accts[from].tokens, tx.record.amount)
         IN  IF diff = None
             THEN [result |-> Err(NotEnoughTokens), accounts |-> accts]
             ELSE LET debited == set_tokens(accts, from, diff[1])
                  IN  IF ~has_account(debited, tx.record.to)
                      THEN [result |-> Err(ToAccountNotFound),
                            accounts |-> debited]
                      ELSE LET sum == checked_add(debited[tx.record.to].tokens,
                                                  tx.record.amount)
                           IN  IF sum = None
                               THEN [result |-> Err(TooManyTokens),
                                     accounts |-> debited]
                               ELSE [result |-> Ok,
                                     accounts |-> set_tokens(debited, tx.record.to, sum[1])]

\* Transaction::apply: the outcome and the account map it leaves, whether
\* it succeeded or not. genesis is world_state.is_genesis().
apply(tx, accts, genesis) ==
    CASE tx.record.kind = "CreateUserAccount" -> apply_CreateUserAccount(tx, accts, genesis)
      [] tx.record.kind = "MintTokens" -> apply_MintTokens(tx, accts, genesis)
      [] tx.record.kind = "SendTokens" -> apply_SendTokens(tx, accts, genesis)

\* ------------------------------------------------------------------ blocks

\* Block: the struct's three fields.
Block(transactions, hash, previous_hash) ==
    [transactions |-> transactions, hash |-> hash, previous_hash |-> previous_hash]

\* calculate_hash if the transaction hashes were combined by an operation
\* that does not depend on their order: the digest is the set of what was fed.
Block_calculate_hash_unordered(block) ==
    {Transaction_calculate_hash(block.transactions[i]) :
        i \in 1 .. Len(block.transactions)}

\* Block::calculate_hash: one blake3 hasher fed every transaction hash in
\* sequence order, then finalized. Transaction hashes have a fixed width,
\* so the digest (collision-free) is the sequence of what was fed.
Block_calculate_hash(block) ==
    [i \in 1 .. Len(block.transactions) |->
        Transaction_calculate_hash(block.transactions[i])]

\* is_hash_valid if an unset hash passed.
is_hash_valid_unset_passes(block) ==
    IF block.hash = None THEN TRUE
    ELSE block.hash[1] = Block_calculate_hash(block)

\* is_hash_valid if it only looked whether the hash field is set.
is_hash_valid_any_set(block) == block.hash # None

\* Block::is_hash_valid.
is_hash_valid(block) ==
    IF block.hash = None THEN FALSE
    ELSE block.hash[1] = Block_calculate_hash(block)

\* -------------------------------------------------------------- blockchain

\* Blockchain::get_last_block_hash: None on an empty chain, else the hash
\* field (an Option) of the last block.
get_last_block_hash(blks) ==
    IF Len(blks) = 0 THEN None ELSE blks[Len(blks)].hash

\* The link check if it were skipped.
previous_hash_matches_any(block, blks) == TRUE

\* The link check if an unset previous_hash passed.
previous_hash_matches_unset_passes(block, blks) ==
    block.previous_hash = None \/ block.previous_hash = get_last_block_hash(blks)

\* add_block's link check (line 39): does the block name the last block?
previous_hash_matches(block, blks) ==
    block.previous_hash = get_last_block_hash(blks)

\* The roll back if the snapshot were not restored.
roll_back_nothing(previous_state, current) == current

\* The roll back if it restored a fresh map instead of the snapshot.
roll_back_to_empty(previous_state, current) == <<>>

\* add_block's roll back (line 47): the account map a failed block leaves.
roll_back(previous_state, current) == previous_state

\* The loop if it went on after a failure and reported the last one.
RECURSIVE apply_from_keeps_going(_, _, _, _)
apply_from_keeps_going(txs, i, accts, genesis) ==
    IF i > Len(txs)
    THEN [result |-> Ok, accounts |-> accts]
    ELSE LET r == apply(txs[i], accts, genesis)
             rest == apply_from_keeps_going(txs, i + 1, r.accounts, genesis)
         IN  IF ~rest.result.ok THEN rest
             ELSE IF ~r.result.ok
             THEN [result |-> Err(TransactionError(r.result.err, i - 1)),
                   accounts |-> rest.accounts]
             ELSE rest

\* The loop if every transaction were applied to the account map the block
\* started from, only the last one's effect being kept.
RECURSIVE apply_from_on_snapshot(_, _, _, _)
apply_from_on_snapshot(txs, i, accts, genesis) ==
    IF i > Len(txs)
    THEN [result |-> Ok, accounts |-> accts]
    ELSE LET r == apply(txs[i], accts, genesis)
         IN  IF ~r.result.ok
             THEN [result |-> Err(TransactionError(r.result.err, i - 1)),
                   accounts |-> r.accounts]
             ELSE IF i = Len(txs)
             THEN [result |-> Ok, accounts |-> r.accounts]
             ELSE apply_from_on_snapshot(txs, i + 1, accts, genesis)

\* The loop if it refused a transaction whose nonce and sender an earlier
\* transaction of the block had already used.
RECURSIVE apply_from_checks_nonce(_, _, _, _)
apply_from_checks_nonce(txs, i, accts, genesis) ==
    IF i > Len(txs)
    THEN [result |-> Ok, accounts |-> accts]
    ELSE IF \E j \in 1 .. i - 1 :
               /\ txs[j].nonce = txs[i].nonce
               /\ txs[j].from_account_id = txs[i].from_account_id
    THEN [result |-> Err(TransactionError(<<"nonce already used">>, i - 1)),
          accounts |-> accts]
    ELSE LET r == apply(txs[i], accts, genesis)
         IN  IF ~r.result.ok
             THEN [result |-> Err(TransactionError(r.result.err, i - 1)),
                   accounts |-> r.accounts]
             ELSE apply_from_checks_nonce(txs, i + 1, r.accounts, genesis)

\* add_block's loop (lines 44-50) from the transaction at position i
\* (1-based here, reported 0-based as in enumerate): stops at the first
\* failure with the account map that transaction left.
RECURSIVE apply_from(_, _, _, _)
apply_from(txs, i, accts, genesis) ==
    IF i > Len(txs)
    THEN [result |-> Ok, accounts |-> accts]
    ELSE LET r == apply(txs[i], accts, genesis)
         IN  IF ~r.result.ok
             THEN [result |-> Err(TransactionError(r.result.err, i - 1)),
                   accounts |-> r.accounts]
             ELSE apply_from(txs, i + 1, r.accounts, genesis)

\* add_block if it pushed the block before applying its transactions and
\* left it there when one failed.
add_block_pushes_first(blks, accts, block) ==
    IF ~is_hash_valid(block)
    THEN [result |-> Err(InvalidHash), blocks |-> blks, accounts |-> accts]
    ELSE IF is_genesis(blks)
    THEN [result |-> Ok, blocks |-> Append(blks, block), accounts |-> accts]
    ELSE IF ~previous_hash_matches(block, blks)
    THEN [result |-> Err(InvalidPreviousHash), blocks |-> blks, accounts |-> accts]
    ELSE LET previous_state == accts
             r == apply_from(block.transactions, 1, accts, is_genesis(blks))
         IN  IF ~r.result.ok
             THEN [result |-> r.result, blocks |-> Append(blks, block),
                   accounts |-> roll_back(previous_state, r.accounts)]
             ELSE [result |-> Ok, blocks |-> Append(blks, block), accounts |-> r.accounts]

\* add_block if the genesis block's transactions were applied like those of
\* any other block.
add_block_applies_genesis(blks, accts, block) ==
    IF ~is_hash_valid(block)
    THEN [result |-> Err(InvalidHash), blocks |-> blks, accounts |-> accts]
    ELSE IF ~is_genesis(blks) /\ ~previous_hash_matches(block, blks)
    THEN [result |-> Err(InvalidPreviousHash), blocks |-> blks, accounts |-> accts]
    ELSE LET previous_state == accts
             r == apply_from(block.transactions, 1, accts, is_genesis(blks))
         IN  IF ~r.result.ok
             THEN [result |-> r.result, blocks |-> blks,
                   accounts |-> roll_back(previous_state, r.accounts)]
             ELSE [result |-> Ok, blocks |-> Append(blks, block), accounts |-> r.accounts]

\* Blockchain::add_block: the outcome, the block list and the account map.
add_block(blks, accts, block) ==
    IF ~is_hash_valid(block)
    THEN [result |-> Err(InvalidHash), blocks |-> blks, accounts |-> accts]
    ELSE IF is_genesis(blks)
    THEN [result |-> Ok, blocks |-> Append(blks, block), accounts |-> accts]
    ELSE IF ~previous_hash_matches(block, blks)
    THEN [result |-> Err(InvalidPreviousHash), blocks |-> blks, accounts |-> accts]
    ELSE LET previous_state == accts
             r == apply_from(block.transactions, 1, accts, is_genesis(blks))
         IN  IF ~r.result.ok
             THEN [result |-> r.result, blocks |-> blks,
                   accounts |-> roll_back(previous_state, r.accounts)]
             ELSE [result |-> Ok, blocks |-> Append(blks, block), accounts |-> r.accounts]

\* ------------------------------------------------------------------ inputs

OptionIds == {None} \cup {Some(i) : i \in Ids}

Records ==
    {CreateUserAccount(i) : i \in Ids}
    \cup {MintTokens(i, a) : i \in Ids, a \in Amounts}
    \cup {SendTokens(i, a) : i \in Ids, a \in Amounts}

\* The transactions applied directly, as the tests do with Transaction::new.
Transactions == {Transaction_new(0, r, f, 0) : r \in Records, f \in OptionIds}

\* The transactions submitted in blocks: bob's creation, a mint of the
\* largest amount to alice and a transfer of one token from alice to bob.
BlockTransactions ==
    {Transaction_new(0, CreateUserAccount("bob"), None, 0),
     Transaction_new(0, MintTokens("alice", AmountMax), None, 0),
     Transaction_new(0, SendTokens("bob", 1), Some("alice"), 0)}

RECURSIVE SeqsUpTo(_, _)
SeqsUpTo(S, n) ==
    IF n = 0 THEN {<<>>}
    ELSE LET shorter == SeqsUpTo(S, n - 1)
         IN  shorter \cup {Append(q, x) : q \in shorter, x \in S}

BlockTransactionSeqs == SeqsUpTo(BlockTransactions, MaxTxs)

\* The digest of a block without transactions.
EmptyHash == Block_calculate_hash(Block(<<>>, None, None))

\* A digest other than h.
OtherHash(h) ==
    IF h # EmptyHash THEN EmptyHash
    ELSE Block_calculate_hash(
            Block(<<Transaction_new(0, CreateUserAccount("bob"), None, 0)>>, None, None))

\* The hash fields a caller may submit with these transactions: unset, the
\* computed digest, another digest.
HashChoices(txs) ==
    LET h == Block_calculate_hash(Block(txs, None, None))
    IN  {None, Some(h), Some(OtherHash(h))}

\* The previous_hash fields a caller may submit: unset, the last block's
\* hash, another digest.
PreviousHashChoices(blks) ==
    LET last == get_last_block_hash(blks)
    IN  {None, last, Some(OtherHash(IF last = None THEN EmptyHash ELSE last[1]))}

\* ----------------------------------------------------- signed transactions

Nonces == 0 .. MaxNonce

\* The signature field: unset, or the string a signer attached.
Signatures == {None, Some("signature")}

\* A transaction whose signature field has been assigned.
with_signature(tx, signature) == [tx EXCEPT !.signature = signature]

\* The transactions a signing caller applies directly: account creations
\* under every nonce, sender and signature, and the genesis mint to alice.
SignedTransactions ==
    {with_signature(Transaction_new(n, CreateUserAccount(i), f, 0), sig) :
        n \in Nonces, i \in Ids, f \in OptionIds, sig \in Signatures}
    \cup {Transaction_new(0, MintTokens("alice", AmountMax), None, 0)}

\* The transactions a signing caller puts in blocks.
SignedBlockTransactions ==
    {Transaction_new(0, CreateUserAccount("bob"), None, 0),
     Transaction_new(0, SendTokens("bob", 1), Some("alice"), 0)}

SignedBlockTransactionSeqs == SeqsUpTo(SignedBlockTransactions, MaxTxs)

\* The transactions txs with the signature of the one at position i assigned.
sign_at(txs, i, signature) == [txs EXCEPT ![i] = with_signature(@, signature)]

\* What a signer may make of the transactions of a block: leave them, or
\* attach a signature to one of them.
Signings(txs) ==
    {txs} \cup {sign_at(txs, i, Some("signature")) : i \in 1 .. Len(txs)}

\* The block a caller builds from txs and p and freezes: its hash field is
\* set to the digest computed then.
frozen_block(txs, p) ==
    Block(txs, Some(Block_calculate_hash(Block(txs, None, p))), p)

\* ------------------------------------------------------------------- state

VARIABLES
    blocks,                \* Blockchain.blocks
    accounts,              \* Blockchain.accounts
    pending_transactions,  \* Blockchain.pending_transactions
    call,                  \* the call that just returned: its name, input and result
    before                 \* blocks and accounts when that call started

vars == <<blocks, accounts, pending_transactions, call, before>>

\* The caller holds no result.
NoCall == [op |-> "none"]

NoSnapshot == [blocks |-> <<>>, accounts |-> <<>>]

\* Blockchain::new().
Init ==
    /\ blocks = <<>>
    /\ accounts = <<>>
    /\ pending_transactions = <<>>
    /\ call = NoCall
    /\ before = NoSnapshot

\* The caller holds no result and the chain is not yet MaxBlocks long: it
\* makes its next call.
CanCall == call.op = "none" /\ Len(blocks) < MaxBlocks

\* chain.add_block(block), for every block the caller may build.
AddBlock ==
    /\ CanCall
    /\ \E p \in PreviousHashChoices(blocks), txs \in BlockTransactionSeqs :
         \E h \in HashChoices(txs) :
            \E block \in {Block(txs, h, p)} :
               \E r \in {add_block(blocks, accounts, block)} :
                  /\ blocks' = r.blocks
                  /\ accounts' = r.accounts
                  /\ call' = [op |-> "add_block", block |-> block, result |-> r.result]
    /\ before' = [blocks |-> blocks, accounts |-> accounts]
    /\ UNCHANGED pending_transactions

\* transaction.apply(&mut chain), for every transaction.
Apply ==
    /\ CanCall
    /\ \E tx \in Transactions :
         \E r \in {apply(tx, accounts, is_genesis(blocks))} :
            /\ accounts' = r.accounts
            /\ call' = [op |-> "apply", tx |-> tx, result |-> r.result]
    /\ before' = [blocks |-> blocks, accounts |-> accounts]
    /\ UNCHANGED <<blocks, pending_transactions>>

\* chain.add_account(id), for every id.
AddAccount ==
    /\ CanCall
    /\ \E id \in Ids :
         \E r \in {add_account(accounts, id)} :
            /\ accounts' = r.accounts
            /\ call' = [op |-> "add_account", id |-> id, result |-> r.result]
    /\ before' = [blocks |-> blocks, accounts |-> accounts]
    /\ UNCHANGED <<blocks, pending_transactions>>

\* The caller is done with the Result it got and goes on to its next call.
Return ==
    /\ call.op # "none"
    /\ call' = NoCall
    /\ before' = NoSnapshot
    /\ UNCHANGED <<blocks, accounts, pending_transactions>>

Next ==
    \/ AddBlock
    \/ Apply
    \/ AddAccount
    \/ Return

Spec == Init /\ [][Next]_vars

\* ------------------------------------------------------- the signing caller

\* chain.add_block(block) of a block that was frozen and whose transactions
\* a signer then went over.
AddSignedBlock ==
    /\ CanCall
    /\ \E p \in PreviousHashChoices(blocks), txs \in SignedBlockTransactionSeqs :
         \E frozen \in {frozen_block(txs, p)} :
            \E signed \in Signings(txs) :
               \E block \in {[frozen EXCEPT !.transactions = signed]} :
                  \E r \in {add_block(blocks, accounts, block)} :
                     /\ blocks' = r.blocks
                     /\ accounts' = r.accounts
                     /\ call' = [op |-> "add_block", block |-> block,
                                 frozen |-> frozen, result |-> r.result]
    /\ before' = [blocks |-> blocks, accounts |-> accounts]
    /\ UNCHANGED pending_transactions

\* transaction.apply(&mut chain), for every transaction of the signing caller.
ApplySigned ==
    /\ CanCall
    /\ \E tx \in SignedTransactions :
         \E r \in {apply(tx, accounts, is_genesis(blocks))} :
            /\ accounts' = r.accounts
            /\ call' = [op |-> "apply", tx |-> tx, result |-> r.result]
    /\ before' = [blocks |-> blocks, accounts |-> accounts]
    /\ UNCHANGED <<blocks, pending_transactions>>

SignedNext ==
    \/ AddSignedBlock
    \/ ApplySigned
    \/ Return

SignedSpec == Init /\ [][SignedNext]_vars

\* ------------------------------------------------------- the hashing caller

\* The transactions a hashing caller builds: the same account creation under
\* every nonce, once more with a signature, and once more created later.
HashedTransactions ==
    {Transaction_new(n, CreateUserAccount("bob"), None, 0) : n \in Nonces}
    \cup {with_signature(Transaction_new(0, CreateUserAccount("bob"), None, 0),
                         Some("signature")),
          Transaction_new(0, CreateUserAccount("bob"), None, 1)}

\* The blocks a hashing caller builds, with every choice of the hash field
\* and with previous_hash unset or set.
HashedBlocks ==
    UNION {{Block(txs, h, p) : h \in HashChoices(txs), p \in {None, Some(EmptyHash)}} :
              txs \in SeqsUpTo(HashedTransactions, MaxTxs)}

\* block.calculate_hash(), for every block of the hashing caller.
CalculateHash ==
    /\ CanCall
    /\ \E block \in HashedBlocks :
         call' = [op |-> "calculate_hash", block |-> block,
                  result |-> Block_calculate_hash(block)]
    /\ before' = [blocks |-> blocks, accounts |-> accounts]
    /\ UNCHANGED <<blocks, accounts, pending_transactions>>

\* block.is_hash_valid(), for every block of the hashing caller.
IsHashValid ==
    /\ CanCall
    /\ \E block \in HashedBlocks :
         call' = [op |-> "is_hash_valid", block |-> block,
                  result |-> is_hash_valid(block)]
    /\ before' = [blocks |-> blocks, accounts |-> accounts]
    /\ UNCHANGED <<blocks, accounts, pending_transactions>>

HashNext ==
    \/ CalculateHash
    \/ IsHashValid
    \/ Return

HashSpec == Init /\ [][HashNext]_vars

\* ------------------------------------------------ the caller of add_block only

\* The transactions of a caller that only submits blocks: those of the
\* other blocks and alice's creation.
ChainTransactions ==
    BlockTransactions \cup {Transaction_new(0, CreateUserAccount("alice"), None, 0)}

\* chain.add_block(block), for every block built from ChainTransactions.
AddChainBlock ==
    /\ CanCall
    /\ \E p \in PreviousHashChoices(blocks),
          txs \in SeqsUpTo(ChainTransactions, MaxTxs) :
         \E h \in HashChoices(txs) :
            \E block \in {Block(txs, h, p)} :
               \E r \in {add_block(blocks, accounts, block)} :
                  /\ blocks' = r.blocks
                  /\ accounts' = r.accounts
                  /\ call' = [op |-> "add_block", block |-> block, result |-> r.result]
    /\ before' = [blocks |-> blocks, accounts |-> accounts]
    /\ UNCHANGED pending_transactions

ChainNext ==
    \/ AddChainBlock
    \/ Return

ChainSpec == Init /\ [][ChainNext]_vars

\* ------------------------------------------------------------------ claims

\* The block's hash field is set and is the digest of its transactions.
HashCorrect(block) == block.hash = Some(Block_calculate_hash(block))

\* The block names the hash field of the last block of a non-empty chain.
LinksTo(block, blks) ==
    Len(blks) > 0 /\ block.previous_hash = blks[Len(blks)].hash

\* The outcome of applying the block's transactions one after the other to
\* the account map the call started from, on a chain past genesis.
SequentialOutcome == apply_from(call.block.transactions, 1, before.accounts, FALSE)

\* An add_block call on a non-empty chain, of a block that passes the hash
\* and previous-hash checks and has a transaction that fails when applied.
C1_Case ==
    /\ call.op = "add_block"
    /\ Len(before.blocks) > 0
    /\ HashCorrect(call.block)
    /\ LinksTo(call.block, before.blocks)
    /\ ~SequentialOutcome.result.ok

\* C1. Rollback atomicity: after an add_block call on a non-empty chain whose
\* block passes the hash and previous-hash checks but has a failing
\* transaction, the account map is the one the call started from (the effects
\* of the earlier transactions and the partial effect of the failing one are
\* gone) and the block list is unchanged.
C1_RollbackAtomicity ==
    C1_Case => accounts = before.accounts /\ blocks = before.blocks

\* C1's case: the second transfer of a block fails on the credit, after the
\* first transfer succeeded and its own debit was stored.
C1_Witness ==
    /\ C1_Case
    /\ call.result = Err(TransactionError(TooManyTokens, 1))
    /\ SequentialOutcome.accounts # before.accounts

\* C2. Chain linkage: every block after the first names the hash of the
\* block before it.
C2_ChainLinkage ==
    \A i \in 2 .. Len(blocks) : blocks[i].previous_hash = blocks[i - 1].hash

\* C2's case: a second block has just been appended.
C2_Witness ==
    /\ call.op = "add_block"
    /\ call.result.ok
    /\ Len(blocks) >= 2

\* An add_block call on an empty chain with a block whose own hash is valid.
C3_Case ==
    /\ call.op = "add_block"
    /\ Len(before.blocks) = 0
    /\ HashCorrect(call.block)

\* C3. Genesis bypass: add_block on an empty chain with a block whose own
\* hash is valid succeeds and appends the block, and the account map is the
\* one before the call, whatever the block's transactions and previous_hash.
C3_GenesisBypass ==
    C3_Case =>
        /\ call.result = Ok
        /\ blocks = <<call.block>>
        /\ accounts = before.accounts

\* C3's case: the genesis block mints to an existing account and names a
\* previous hash.
C3_Witness ==
    /\ C3_Case
    /\ call.block.previous_hash # None
    /\ \E i \in 1 .. Len(call.block.transactions) :
          /\ call.block.transactions[i].record.kind = "MintTokens"
          /\ call.block.transactions[i].record.to \in DOMAIN before.accounts

\* The balance of an account in an account map.
Balance(accts, id) == accts[id].tokens

\* A block made of a sender-less mint of m to alice followed by a transfer of
\* n <= m from alice to bob.
IsMintThenSend(block) ==
    /\ Len(block.transactions) = 2
    /\ block.transactions[1].record.kind = "MintTokens"
    /\ block.transactions[1].record.to = "alice"
    /\ block.transactions[1].from_account_id = None
    /\ block.transactions[2].record.kind = "SendTokens"
    /\ block.transactions[2].record.to = "bob"
    /\ block.transactions[2].from_account_id = Some("alice")
    /\ block.transactions[2].record.amount <= block.transactions[1].record.amount

\* An add_block call on a chain of exactly one block, with alice and bob
\* existing at balance zero, of a correctly hashed and linked block that
\* mints to alice and then sends from alice to bob.
C4_Case ==
    /\ call.op = "add_block"
    /\ Len(before.blocks) = 1
    /\ {"alice", "bob"} \subseteq DOMAIN before.accounts
    /\ Balance(before.accounts, "alice") = 0
    /\ Balance(before.accounts, "bob") = 0
    /\ HashCorrect(call.block)
    /\ LinksTo(call.block, before.blocks)
    /\ IsMintThenSend(call.block)

\* C4 as stated: the second block that mints m to alice and sends n <= m to
\* bob is accepted and leaves alice at m - n and bob at n.
C4_AsStated ==
    C4_Case =>
        /\ call.result = Ok
        /\ Balance(accounts, "alice") =
              call.block.transactions[1].record.amount
              - call.block.transactions[2].record.amount
        /\ Balance(accounts, "bob") = call.block.transactions[2].record.amount

\* C4, amended. That second block is rejected: add_block reports transaction
\* 0 with the cause "cannot mint tokens after genesis", alice and bob keep
\* balance zero and the block is not appended.
C4_MintInSecondBlockRejected ==
    C4_Case =>
        /\ call.result = Err(TransactionError(MintAfterGenesis, 0))
        /\ Balance(accounts, "alice") = 0
        /\ Balance(accounts, "bob") = 0
        /\ accounts = before.accounts
        /\ blocks = before.blocks

\* C4's case: the scenario's block was submitted.
C4_Witness ==
    /\ C4_Case
    /\ call.block.transactions[1].record.amount > call.block.transactions[2].record.amount

\* A direct apply of SendTokens from an existing sender whose balance is
\* less than the amount.
C5_Case ==
    /\ call.op = "apply"
    /\ call.tx.record.kind = "SendTokens"
    /\ call.tx.from_account_id # None
    /\ call.tx.from_account_id[1] \in DOMAIN before.accounts
    /\ Balance(before.accounts, call.tx.from_account_id[1]) < call.tx.record.amount

\* C5. Underflow guard: SendTokens from an existing sender with less than
\* the amount fails with NotEnoughTokens and the account map (every balance,
\* the set of accounts) is as before, whether or not the recipient exists.
C5_UnderflowGuard ==
    C5_Case =>
        /\ call.result = Err(NotEnoughTokens)
        /\ accounts = before.accounts

\* C5's case: the sender holds tokens, fewer than the amount, and the
\* recipient does not exist.
C5_Witness ==
    /\ C5_Case
    /\ Balance(before.accounts, call.tx.from_account_id[1]) > 0
    /\ call.tx.record.to \notin DOMAIN before.accounts

\* A direct apply, in genesis state, of a sender-less MintTokens to an
\* existing account whose balance plus the amount exceeds the maximum.
C6_Case ==
    /\ call.op = "apply"
    /\ call.tx.record.kind = "MintTokens"
    /\ call.tx.from_account_id = None
    /\ Len(before.blocks) = 0
    /\ call.tx.record.to \in DOMAIN before.accounts
    /\ Balance(before.accounts, call.tx.record.to) + call.tx.record.amount > AmountMax

\* C6. Mint overflow guard: such a mint fails with TooManyTokens and every
\* balance is as before.
C6_MintOverflowGuard ==
    C6_Case =>
        /\ call.result = Err(TooManyTokens)
        /\ accounts = before.accounts

\* C6's case: the overflowing mint is to an account below the maximum.
C6_Witness ==
    /\ C6_Case
    /\ Balance(before.accounts, call.tx.record.to) < AmountMax
    /\ Cardinality(DOMAIN before.accounts) = 2

\* An add_block call on a non-empty chain with a block whose previous_hash
\* is not the hash of the last committed block.
C7_Case ==
    /\ call.op = "add_block"
    /\ Len(before.blocks) > 0
    /\ call.block.previous_hash # before.blocks[Len(before.blocks)].hash

\* C7 as stated: such a block is rejected with InvalidPreviousHash whatever
\* its own hash field is, and blocks and accounts are unchanged.
C7_AsStated ==
    C7_Case =>
        /\ call.result = Err(InvalidPreviousHash)
        /\ blocks = before.blocks
        /\ accounts = before.accounts

\* C7, amended. On a non-empty chain a block whose previous_hash is not the
\* hash of the last committed block (unset included) is rejected whatever its
\* transactions, with InvalidPreviousHash when its own hash field is valid
\* and with InvalidHash when it is unset or wrong; blocks and accounts are
\* unchanged.
C7_UnlinkedBlockRejected ==
    C7_Case =>
        /\ call.result =
              IF HashCorrect(call.block) THEN Err(InvalidPreviousHash)
              ELSE Err(InvalidHash)
        /\ blocks = before.blocks
        /\ accounts = before.accounts

\* C7's case: a correctly hashed block with previous_hash unset, whose
\* transactions would all apply, is submitted to a non-empty chain.
C7_Witness ==
    /\ C7_Case
    /\ HashCorrect(call.block)
    /\ call.block.previous_hash = None
    /\ Len(call.block.transactions) > 0
    /\ SequentialOutcome.result.ok

\* An add_block call with a block whose hash field is unset or is not the
\* digest of its transactions.
C8_Case ==
    /\ call.op = "add_block"
    /\ \/ call.block.hash = None
       \/ call.block.hash # Some(Block_calculate_hash(call.block))

\* C8. Own-hash check comes first: such a block is rejected with InvalidHash
\* in every chain state; blocks and accounts are unchanged, so an empty chain
\* stays empty.
C8_OwnHashFirst ==
    C8_Case =>
        /\ call.result = Err(InvalidHash)
        /\ blocks = before.blocks
        /\ accounts = before.accounts
        /\ (Len(before.blocks) = 0 => Len(blocks) = 0)

\* C8's case: a block with its hash unset is submitted to an empty chain.
C8_Witness ==
    /\ C8_Case
    /\ call.block.hash = None
    /\ Len(before.blocks) = 0
    /\ Len(call.block.transactions) > 0

\* A direct apply of a sender-less MintTokens once a block is committed.
C9_Case ==
    /\ call.op = "apply"
    /\ call.tx.record.kind = "MintTokens"
    /\ call.tx.from_account_id = None
    /\ Len(before.blocks) >= 1

\* C9. No mint after genesis: with at least one block committed, a
\* sender-less MintTokens fails with MintAfterGenesis and changes no balance
\* and no account, whether or not the recipient exists, whatever the amount.
C9_NoMintAfterGenesis ==
    C9_Case =>
        /\ call.result = Err(MintAfterGenesis)
        /\ accounts = before.accounts

\* C9's case: a mint of amount 0 to a missing recipient after genesis.
C9_Witness ==
    /\ C9_Case
    /\ call.tx.record.amount = 0
    /\ call.tx.record.to \notin DOMAIN before.accounts

\* A direct apply of MintTokens.
C10_Case ==
    /\ call.op = "apply"
    /\ call.tx.record.kind = "MintTokens"

\* The four mint failures, as conditions on the input and the state before.
C10_SenderSet == call.tx.from_account_id # None

C10_ChainNonEmpty == Len(before.blocks) > 0

C10_RecipientMissing == call.tx.record.to \notin DOMAIN before.accounts

C10_Overflow ==
    /\ call.tx.record.to \in DOMAIN before.accounts
    /\ Balance(before.accounts, call.tx.record.to) + call.tx.record.amount > AmountMax

\* C10. Mint check order: MintTokens with a sender fails with UsersCannotMint
\* in every state and changes nothing; the reported error is the first that
\* holds of: sender set, chain non-empty, recipient missing, overflow.
C10_MintCheckOrder ==
    C10_Case =>
        /\ C10_SenderSet =>
              call.result = Err(UsersCannotMint) /\ accounts = before.accounts
        /\ ~C10_SenderSet /\ C10_ChainNonEmpty =>
              call.result = Err(MintAfterGenesis)
        /\ ~C10_SenderSet /\ ~C10_ChainNonEmpty /\ C10_RecipientMissing =>
              call.result = Err(AccountNotFound)
        /\ ~C10_SenderSet /\ ~C10_ChainNonEmpty /\ ~C10_RecipientMissing /\ C10_Overflow =>
              call.result = Err(TooManyTokens)

\* C10's case: a mint with a sender, after genesis, that would overflow the
\* recipient.
C10_Witness ==
    /\ C10_Case
    /\ C10_SenderSet
    /\ C10_ChainNonEmpty
    /\ C10_Overflow

\* Every account of the map accts other than id is in the map after, with the
\* same balance.
OthersUnchanged(accts, after, id) ==
    \A k \in DOMAIN accts \ {id} :
        k \in DOMAIN after /\ Balance(after, k) = Balance(accts, k)

\* A direct apply, in genesis state, of a sender-less MintTokens to an
\* existing account whose balance plus the amount fits.
C11_Case ==
    /\ call.op = "apply"
    /\ call.tx.record.kind = "MintTokens"
    /\ call.tx.from_account_id = None
    /\ Len(before.blocks) = 0
    /\ call.tx.record.to \in DOMAIN before.accounts
    /\ Balance(before.accounts, call.tx.record.to) + call.tx.record.amount <= AmountMax

\* C11. Successful mint: such a mint succeeds and raises the recipient's
\* balance by exactly the amount; every other balance, the set of accounts and
\* the block list are unchanged.
C11_SuccessfulMint ==
    C11_Case =>
        /\ call.result = Ok
        /\ DOMAIN accounts = DOMAIN before.accounts
        /\ Balance(accounts, call.tx.record.to) =
              Balance(before.accounts, call.tx.record.to) + call.tx.record.amount
        /\ OthersUnchanged(before.accounts, accounts, call.tx.record.to)
        /\ blocks = before.blocks

\* C11's case: a mint of a positive amount to an account that already holds
\* tokens, next to another account.
C11_Witness ==
    /\ C11_Case
    /\ call.tx.record.amount > 0
    /\ Balance(before.accounts, call.tx.record.to) > 0
    /\ Cardinality(DOMAIN before.accounts) = 2

\* The sum of the balances of the accounts ids of an account map.
RECURSIVE SumOver(_, _)
SumOver(accts, ids) ==
    IF ids = {} THEN 0
    ELSE LET k == CHOOSE x \in ids : TRUE
         IN  Balance(accts, k) + SumOver(accts, ids \ {k})

\* The sum of all balances of an account map.
TotalTokens(accts) == SumOver(accts, DOMAIN accts)

\* A direct apply of SendTokens from an existing sender holding at least the
\* amount to an existing recipient whose balance (after the debit, when it is
\* the sender) plus the amount fits.
C12_Case ==
    /\ call.op = "apply"
    /\ call.tx.record.kind = "SendTokens"
    /\ call.tx.from_account_id # None
    /\ call.tx.from_account_id[1] \in DOMAIN before.accounts
    /\ Balance(before.accounts, call.tx.from_account_id[1]) >= call.tx.record.amount
    /\ call.tx.record.to \in DOMAIN before.accounts
    /\ (IF call.tx.record.to = call.tx.from_account_id[1]
        THEN Balance(before.accounts, call.tx.record.to) - call.tx.record.amount
        ELSE Balance(before.accounts, call.tx.record.to))
          + call.tx.record.amount <= AmountMax

\* C12. Successful transfer: such a transfer succeeds in any chain state; with
\* sender and recipient different the sender falls and the recipient rises by
\* exactly the amount, with sender and recipient the same the balance is
\* unchanged; every other balance and the set of accounts are unchanged and the
\* sum of all balances is preserved.
C12_SuccessfulTransfer ==
    C12_Case =>
        LET from == call.tx.from_account_id[1]
            to == call.tx.record.to
            amount == call.tx.record.amount
        IN  /\ call.result = Ok
            /\ DOMAIN accounts = DOMAIN before.accounts
            /\ from # to =>
                  /\ Balance(accounts, from) = Balance(before.accounts, from) - amount
                  /\ Balance(accounts, to) = Balance(before.accounts, to) + amount
            /\ from = to => Balance(accounts, from) = Balance(before.accounts, from)
            /\ \A k \in DOMAIN before.accounts \ {from, to} :
                  Balance(accounts, k) = Balance(before.accounts, k)
            /\ TotalTokens(accounts) = TotalTokens(before.accounts)
            /\ blocks = before.blocks

\* C12's case: a transfer of a positive amount between two accounts, once a
\* block is committed.
C12_Witness ==
    /\ C12_Case
    /\ call.tx.from_account_id[1] # call.tx.record.to
    /\ call.tx.record.amount > 0
    /\ Len(before.blocks) > 0

\* The id an account-creating call names: add_account's argument or the
\* CreateUserAccount record's id; None for any other call.
CreatedId ==
    IF call.op = "add_account" THEN Some(call.id)
    ELSE IF call.op = "apply" /\ call.tx.record.kind = "CreateUserAccount"
    THEN Some(call.tx.record.id)
    ELSE None

\* An add_account call, or a direct apply of CreateUserAccount, on an id that
\* is already present.
C13_Case ==
    /\ CreatedId # None
    /\ CreatedId[1] \in DOMAIN before.accounts

\* C13. Duplicate account rejection: add_account(id) and CreateUserAccount(id)
\* on an id already present fail with AccountAlreadyExists and change nothing:
\* the existing account keeps its balance and the rest of the map is unchanged.
C13_DuplicateRejected ==
    C13_Case =>
        /\ call.result = Err(AccountAlreadyExists)
        /\ Balance(accounts, CreatedId[1]) = Balance(before.accounts, CreatedId[1])
        /\ accounts = before.accounts
        /\ blocks = before.blocks

\* C13's case: add_account on an account that holds tokens.
C13_Witness ==
    /\ C13_Case
    /\ call.op = "add_account"
    /\ Balance(before.accounts, call.id) > 0

\* A direct apply of CreateUserAccount(id) with id absent.
C14_Case ==
    /\ call.op = "apply"
    /\ call.tx.record.kind = "CreateUserAccount"
    /\ call.tx.record.id \notin DOMAIN before.accounts

\* C14. Successful account creation: CreateUserAccount(id) with id absent
\* succeeds in every chain state, whatever the transaction's nonce, sender and
\* signature; afterwards id is present with balance 0 and every account that
\* existed has the balance it had.
C14_SuccessfulCreation ==
    C14_Case =>
        /\ call.result = Ok
        /\ DOMAIN accounts = DOMAIN before.accounts \cup {call.tx.record.id}
        /\ Balance(accounts, call.tx.record.id) = 0
        /\ OthersUnchanged(before.accounts, accounts, call.tx.record.id)
        /\ blocks = before.blocks

\* C14's case: a signed creation with a positive nonce and a sender that
\* does not exist, after genesis, next to an account that holds tokens.
C14_Witness ==
    /\ C14_Case
    /\ call.tx.nonce > 0
    /\ call.tx.signature # None
    /\ call.tx.from_account_id # None
    /\ call.tx.from_account_id[1] \notin DOMAIN before.accounts
    /\ Len(before.blocks) > 0
    /\ \E k \in DOMAIN before.accounts : Balance(before.accounts, k) > 0

\* The direct apply that just returned stored a debit of the sender: a
\* SendTokens that succeeded or failed after the debit.
DebitStored ==
    /\ call.tx.record.kind = "SendTokens"
    /\ \/ call.result.ok
       \/ call.result.err \in {ToAccountNotFound, TooManyTokens}

\* The direct apply that just returned stored a credit of the recipient.
CreditStored ==
    /\ call.tx.record.kind \in {"MintTokens", "SendTokens"}
    /\ call.result.ok

\* The change of the balance of k that the credits and debits of the direct
\* apply that just returned add up to, in unbounded arithmetic.
ExactChange(k) ==
    (IF CreditStored /\ k = call.tx.record.to THEN call.tx.record.amount ELSE 0)
    - (IF DebitStored /\ k = call.tx.from_account_id[1]
       THEN call.tx.record.amount ELSE 0)

\* C15. Balance bounds: in every state every balance lies in 0 .. AmountMax
\* (AmountMax standing for 2^64 - 1); after a direct apply, successful or
\* not, every balance is the balance before plus the exact sum of the credits
\* and debits stored, and the balance stored by a debit, before the credit, is
\* the exact difference and not negative. No wrapped value is stored.
C15_BalanceBounds ==
    /\ \A k \in DOMAIN accounts : Balance(accounts, k) \in 0 .. AmountMax
    /\ call.op = "apply" =>
          /\ \A k \in DOMAIN before.accounts :
                Balance(accounts, k) = Balance(before.accounts, k) + ExactChange(k)
          /\ DebitStored =>
                Balance(before.accounts, call.tx.from_account_id[1])
                  - call.tx.record.amount >= 0

\* C15's case: a transfer that failed after its debit was stored, the state
\* between the debit and the credit.
C15_Witness ==
    /\ call.op = "apply"
    /\ DebitStored
    /\ ~call.result.ok
    /\ call.tx.record.amount > 0
    /\ Balance(accounts, call.tx.from_account_id[1]) < AmountMax

\* A step that leaves the block list alone, or is a successful add_block
\* that appends its block at the end.
BlocksOnlyAppended ==
    \/ blocks' = blocks
    \/ /\ call'.op = "add_block"
       /\ call'.result = Ok
       /\ blocks' = Append(blocks, call'.block)

\* C16. Genesis is left once and for all: is_genesis() is true exactly when
\* the block list is empty; once false it is false in every later state; the
\* block list changes only by a successful add_block appending its block at
\* the end, so it never shrinks and committed blocks are never removed,
\* reordered or modified.
C16_GenesisLeftOnce ==
    /\ [](is_genesis(blocks) <=> blocks = <<>>)
    /\ [][/\ ~is_genesis(blocks) => ~is_genesis(blocks')
          /\ BlocksOnlyAppended
          /\ Len(blocks') >= Len(blocks)
          /\ \A i \in 1 .. Len(blocks) : blocks'[i] = blocks[i]]_vars

\* C16's case: after genesis a block was rejected because one of its
\* transactions failed.
C16_Witness ==
    /\ call.op = "add_block"
    /\ Len(before.blocks) > 0
    /\ ~call.result.ok
    /\ call.result.err \notin {InvalidHash, InvalidPreviousHash}
    /\ ~is_genesis(blocks)

\* C17. Accounts are never deleted: after every completed operation
\* (add_block, apply, add_account), successful or failed, every account id
\* present before it is still present; after a rejected block the ids are
\* exactly those present before, so a rollback removes only accounts that the
\* rejected block itself had created.
C17_AccountsNeverDeleted ==
    call.op # "none" =>
        /\ DOMAIN before.accounts \subseteq DOMAIN accounts
        /\ call.op = "add_block" /\ ~call.result.ok =>
              DOMAIN accounts = DOMAIN before.accounts

\* C17's case: a block rejected after it had created an account, on a chain
\* that already had accounts.
C17_Witness ==
    /\ call.op = "add_block"
    /\ Len(before.blocks) > 0
    /\ HashCorrect(call.block)
    /\ LinksTo(call.block, before.blocks)
    /\ ~SequentialOutcome.result.ok
    /\ DOMAIN before.accounts # {}
    /\ DOMAIN SequentialOutcome.accounts # DOMAIN before.accounts

\* The block with its previous_hash field assigned.
Relinked(block, p) == [block EXCEPT !.previous_hash = p]

\* C18 as stated. A block's hash depends on the previous block: a block with
\* the same transactions and another previous_hash has another hash, and a
\* hash-valid block re-linked to another predecessor is no longer hash-valid.
C18_AsStated ==
    /\ call.op = "calculate_hash" =>
          \A other \in HashedBlocks :
              /\ other.transactions = call.block.transactions
              /\ other.previous_hash # call.block.previous_hash
              => Block_calculate_hash(other) # call.result
    /\ call.op = "is_hash_valid" /\ call.result =>
          \A other \in HashedBlocks :
              other.previous_hash # call.block.previous_hash
              => ~is_hash_valid(Relinked(call.block, other.previous_hash))

\* The blocks that differ from block in the signature of one transaction.
Resigned(block) ==
    {[block EXCEPT !.transactions = sign_at(@, i, sig)] :
        i \in 1 .. Len(block.transactions),
        sig \in Signatures \cup {Some("other signature")}}

\* C19. Signature is outside the hash: the transactions of a block that was
\* frozen and then signed hash as they did when the block was frozen, the
\* block is still hash-valid, and add_block gives the signed block the outcome
\* (result, accounts, blocks appended) it gives the frozen one; the same holds
\* when the signature of any one transaction is changed again.
C19_SignatureOutsideHash ==
    call.op = "add_block" =>
        /\ \A i \in 1 .. Len(call.block.transactions) :
              Transaction_calculate_hash(call.block.transactions[i])
                = Transaction_calculate_hash(call.frozen.transactions[i])
        /\ is_hash_valid(call.block)
        /\ \A other \in {call.frozen} \cup Resigned(call.block) :
              /\ is_hash_valid(other)
              /\ LET r == add_block(before.blocks, before.accounts, other)
                 IN  /\ r.result = call.result
                     /\ r.accounts = accounts
                     /\ Len(r.blocks) = Len(blocks)

\* C19's case: a block signed after it was frozen is accepted after genesis
\* and its transactions are applied.
C19_Witness ==
    /\ call.op = "add_block"
    /\ call.block # call.frozen
    /\ Len(before.blocks) > 0
    /\ call.result = Ok
    /\ accounts # before.accounts

\* Two transactions that agree on every hashed field.
SameHashedFields(t, u) ==
    /\ t.record = u.record
    /\ t.nonce = u.nonce
    /\ t.from_account_id = u.from_account_id
    /\ t.created_at = u.created_at

\* Two blocks holding the same sequence of transactions, equal in every
\* hashed field.
SameSequence(b, c) ==
    /\ Len(b.transactions) = Len(c.transactions)
    /\ \A i \in 1 .. Len(b.transactions) :
          SameHashedFields(b.transactions[i], c.transactions[i])

\* How many transactions of block b agree with t on every hashed field.
Occurrences(b, t) ==
    Cardinality({i \in 1 .. Len(b.transactions) : SameHashedFields(b.transactions[i], t)})

\* Two blocks holding the same transactions in another order.
Reordered(b, c) ==
    /\ Len(b.transactions) = Len(c.transactions)
    /\ \A i \in 1 .. Len(b.transactions) :
          Occurrences(b, b.transactions[i]) = Occurrences(c, b.transactions[i])
    /\ ~SameSequence(b, c)

RECURSIVE AppliedPrefix(_, _, _)
AppliedPrefix(txs, n, accts) ==
    IF n = 0 THEN accts
    ELSE apply(txs[n], AppliedPrefix(txs, n - 1, accts), FALSE).accounts

\* What applying the transaction at position i (1-based) returns when its
\* predecessors were applied before it.
ResultAt(txs, i, accts) == apply(txs[i], AppliedPrefix(txs, i - 1, accts), FALSE).result

\* The positions (at most one) of the first transaction of txs that fails.
FirstFailure(txs, accts) ==
    {i \in 1 .. Len(txs) :
        /\ ~ResultAt(txs, i, accts).ok
        /\ \A j \in 1 .. i - 1 : ResultAt(txs, j, accts).ok}

\* The transactions of txs from position i on, applied one after the other
\* to accts until one fails: the position of the one that failed (0 when none
\* did), what it returned, and the accounts reached.
RECURSIVE InOrder(_, _, _)
InOrder(txs, i, accts) ==
    IF i > Len(txs)
    THEN [failed |-> 0, result |-> Ok, accounts |-> accts]
    ELSE LET r == apply(txs[i], accts, FALSE)
         IN  IF r.result.ok
             THEN InOrder(txs, i + 1, r.accounts)
             ELSE [failed |-> i, result |-> r.result, accounts |-> r.accounts]

\* An add_block call on a non-empty chain of a block that passes the hash and
\* previous-hash checks.
AppliedBlock ==
    /\ call.op = "add_block"
    /\ Len(before.blocks) > 0
    /\ HashCorrect(call.block)
    /\ LinksTo(call.block, before.blocks)

\* C21. First-failure reporting: when add_block rejects a block because of a
\* transaction, the error carries the 0-based index of the first transaction
\* whose apply fails when the transactions are applied in order from the
\* pre-block account map, and the cause that apply returned; a later failure
\* is never the one reported.
C21_FirstFailureReported ==
    AppliedBlock =>
        LET s == InOrder(call.block.transactions, 1, before.accounts)
        IN  /\ s.failed # 0 =>
                  call.result = Err(TransactionError(s.result.err, s.failed - 1))
            /\ ~call.result.ok => s.failed # 0

\* C21's case: the first of two transactions fails and the second would
\* fail too, for another cause.
C21_Witness ==
    /\ AppliedBlock
    /\ Len(call.block.transactions) = 2
    /\ FirstFailure(call.block.transactions, before.accounts) = {1}
    /\ ~apply(call.block.transactions[2], before.accounts, FALSE).result.ok
    /\ apply(call.block.transactions[2], before.accounts, FALSE).result
          # ResultAt(call.block.transactions, 1, before.accounts)

\* C22. Accepted block equals sequential application: when add_block on a
\* non-empty chain returns success, every transaction of the block applied
\* successfully when applied after its predecessors, the account map is the
\* result of applying the transactions one after the other, in block order,
\* to the pre-block map, and the block is the new last element of the block
\* list.
C22_AcceptedIsSequential ==
    /\ call.op = "add_block"
    /\ Len(before.blocks) > 0
    /\ call.result = Ok
    => LET s == InOrder(call.block.transactions, 1, before.accounts)
       IN  /\ s.failed = 0
           /\ accounts = s.accounts
           /\ blocks = Append(before.blocks, call.block)

\* C22's case: an accepted block whose second transaction succeeds only
\* because of what the first one did.
C22_Witness ==
    /\ call.op = "add_block"
    /\ Len(before.blocks) > 0
    /\ call.result = Ok
    /\ Len(call.block.transactions) = 2
    /\ ~apply(call.block.transactions[2], before.accounts, FALSE).result.ok

\* A direct apply of SendTokens between two different existing accounts, the
\* sender holding at least the amount and the recipient's balance plus the
\* amount exceeding the maximum.
C23_Case ==
    /\ call.op = "apply"
    /\ call.tx.record.kind = "SendTokens"
    /\ call.tx.from_account_id # None
    /\ call.tx.from_account_id[1] # call.tx.record.to
    /\ call.tx.from_account_id[1] \in DOMAIN before.accounts
    /\ call.tx.record.to \in DOMAIN before.accounts
    /\ Balance(before.accounts, call.tx.from_account_id[1]) >= call.tx.record.amount
    /\ Balance(before.accounts, call.tx.record.to) + call.tx.record.amount > AmountMax

\* C23. Debit before credit: such a transfer returns TooManyTokens with the
\* recipient's balance unchanged and the sender's balance lowered by the
\* amount: apply does not undo the debit.
C23_DebitBeforeCredit ==
    C23_Case =>
        /\ call.result = Err(TooManyTokens)
        /\ Balance(accounts, call.tx.record.to)
              = Balance(before.accounts, call.tx.record.to)
        /\ Balance(accounts, call.tx.from_account_id[1])
              = Balance(before.accounts, call.tx.from_account_id[1]) - call.tx.record.amount
        /\ DOMAIN accounts = DOMAIN before.accounts

\* C23's case: the overflowing transfer leaves the sender with tokens.
C23_Witness ==
    /\ C23_Case
    /\ Balance(before.accounts, call.tx.from_account_id[1]) > call.tx.record.amount

\* Two transactions identical in nonce, sender and record.
SameTransaction(t, u) ==
    /\ t.nonce = u.nonce
    /\ t.from_account_id = u.from_account_id
    /\ t.record = u.record

\* The transfer t can be applied n times in a row to accts: sender and
\* recipient exist and differ, the sender holds n times the amount and the
\* recipient has room for it.
Affordable(t, n, accts) ==
    /\ t.record.kind = "SendTokens"
    /\ t.from_account_id # None
    /\ t.from_account_id[1] \in DOMAIN accts
    /\ t.record.to \in DOMAIN accts
    /\ t.from_account_id[1] # t.record.to
    /\ Balance(accts, t.from_account_id[1]) >= n * t.record.amount
    /\ Balance(accts, t.record.to) + n * t.record.amount <= AmountMax

\* The call was accepted and moved n times the amount of t from its sender to
\* its recipient.
MovedTimes(t, n) ==
    /\ call.result = Ok
    /\ Balance(accounts, t.from_account_id[1])
          = Balance(before.accounts, t.from_account_id[1]) - n * t.record.amount
    /\ Balance(accounts, t.record.to)
          = Balance(before.accounts, t.record.to) + n * t.record.amount

C25_CommittedBlocksHashValid ==
    /\ \A i \in 1 .. Len(blocks) : HashCorrect(blocks[i])
    /\ Len(blocks) > 0 => get_last_block_hash(blocks) # None
    /\ /\ call.op = "add_block"
       /\ Len(before.blocks) > 0
       /\ call.block.previous_hash = None
       => ~call.result.ok /\ blocks = before.blocks

\* C25's case: two blocks with transactions are committed.
C25_Witness ==
    /\ Len(blocks) = 2
    /\ blocks[1].transactions # <<>>
    /\ blocks[2].transactions # <<>>
    /\ blocks[1].previous_hash # None

\* The block holds a MintTokens, or a SendTokens of a positive amount.
MovesTokens(block) ==
    \E i \in 1 .. Len(block.transactions) :
        \/ block.transactions[i].record.kind = "MintTokens"
        \/ /\ block.transactions[i].record.kind = "SendTokens"
           /\ block.transactions[i].record.amount > 0

\* C26. No tokens through add_block alone: on a chain modified only through
\* add_block every balance is 0 in every state and the account map is empty
\* until a second block is accepted; the genesis block's transactions are not
\* applied, and a later block holding a MintTokens, or a SendTokens of a
\* positive amount, is rejected as a whole.
C26_NoTokensThroughBlocks ==
    /\ \A k \in DOMAIN accounts : Balance(accounts, k) = 0
    /\ Len(blocks) < 2 => DOMAIN accounts = {}
    /\ call.op = "add_block" /\ Len(before.blocks) = 0 => accounts = before.accounts
    /\ call.op = "add_block" /\ Len(before.blocks) > 0 /\ MovesTokens(call.block) =>
          /\ ~call.result.ok
          /\ blocks = before.blocks
          /\ accounts = before.accounts

\* C26's case: a second block that creates alice and then mints to her.
C26_Witness ==
    /\ AppliedBlock
    /\ call.result = Err(TransactionError(MintAfterGenesis, 1))
    /\ call.block.transactions[1].record = CreateUserAccount("alice")

\* C27. Supply never grows after genesis: an operation called with at least
\* one block committed never increases the sum of all balances; add_block,
\* accepted or rejected, leaves the sum unchanged, a direct apply or
\* add_account leaves it unchanged or lowers it.
C27_SupplyNeverGrows ==
    call.op # "none" /\ Len(before.blocks) >= 1 =>
        /\ TotalTokens(accounts) <= TotalTokens(before.accounts)
        /\ call.op = "add_block" =>
              TotalTokens(accounts) = TotalTokens(before.accounts)

\* C27's case: a block that transfers a positive amount is accepted.
C27_Witness ==
    /\ call.op = "add_block"
    /\ Len(before.blocks) >= 1
    /\ call.result = Ok
    /\ TotalTokens(before.accounts) > 0
    /\ \E k \in DOMAIN before.accounts :
          Balance(accounts, k) # Balance(before.accounts, k)

\* The transfer t, applied to accts, finds its sender with at least the
\* amount and no recipient.
RecipientMissing(t, accts) ==
    /\ t.record.kind = "SendTokens"
    /\ t.from_account_id # None
    /\ t.from_account_id[1] \in DOMAIN accts
    /\ Balance(accts, t.from_account_id[1]) >= t.record.amount
    /\ t.record.to \notin DOMAIN accts

\* C28. Transfer to a missing recipient debits first: a direct apply of a
\* SendTokens whose sender holds the amount and whose recipient does not exist
\* returns the recipient-not-found error with the sender lowered by the
\* amount and no account credited, so the total falls by the amount. The same
\* transaction first in a block submitted after genesis is reported as
\* transaction 0 and leaves blocks and accounts as they were.
C28_MissingRecipientDebits ==
    /\ call.op = "apply" /\ RecipientMissing(call.tx, before.accounts) =>
          /\ call.result = Err(ToAccountNotFound)
          /\ DOMAIN accounts = DOMAIN before.accounts
          /\ Balance(accounts, call.tx.from_account_id[1])
                = Balance(before.accounts, call.tx.from_account_id[1])
                  - call.tx.record.amount
          /\ OthersUnchanged(before.accounts, accounts, call.tx.from_account_id[1])
          /\ TotalTokens(accounts) = TotalTokens(before.accounts) - call.tx.record.amount
    /\ /\ AppliedBlock
       /\ Len(call.block.transactions) >= 1
       /\ RecipientMissing(call.block.transactions[1], before.accounts)
       => /\ call.result = Err(TransactionError(ToAccountNotFound, 0))
          /\ accounts = before.accounts
          /\ blocks = before.blocks

\* C28's case: a direct transfer of a positive amount to a missing recipient
\* once a block is committed.
C28_Witness ==
    /\ call.op = "apply"
    /\ RecipientMissing(call.tx, before.accounts)
    /\ call.tx.record.amount > 0
    /\ Len(before.blocks) > 0

====
